---- MODULE Spec2Model ----
(***************************************************************************)
(* Model of realtime_stt.py: the RealtimeSTT pipeline.                     *)
(*                                                                         *)
(* Threads: the controller (main thread: constructor, start(), stop()),    *)
(* the audio device thread (_audio_callback), one _process_audio worker    *)
(* and one _output_processor worker per start() call.  Each thread's       *)
(* position is a pc variable; every statement that reads or writes shared  *)
(* state (self.running, the two queues, self.stream) is one step.          *)
(***************************************************************************)
EXTENDS Integers, Sequences, FiniteSets, TLC

\* ---- bounds of the model ----
MaxBlocks == 2        \* blocks the audio device delivers in a run
MaxStarts == 2        \* calls of start() in a run
MaxStops  == 2        \* calls of stop() in a run

Workers == 1..MaxStarts     \* the k-th start() launches worker pair k
Streams == 1..MaxStarts     \* the k-th start() opens stream k

\* ---- text values: strings as sequences of characters ----
Texts == {<< >>, <<" ">>, <<"a", " ">>}

\* str.strip(): drop leading and trailing whitespace
RECURSIVE LStrip(_)
LStrip(s) == IF s = << >> THEN << >>
             ELSE IF Head(s) = " " THEN LStrip(Tail(s)) ELSE s

RECURSIVE RStrip(_)
RStrip(s) == IF s = << >> THEN << >>
             ELSE IF s[Len(s)] = " " THEN RStrip(SubSeq(s, 1, Len(s) - 1)) ELSE s

Strip(s) == RStrip(LStrip(s))

\* json.loads(self.recognizer.Result()): a dict that may lack the 'text' key
Results == {[has |-> FALSE, text |-> << >>]} \cup {[has |-> TRUE, text |-> t] : t \in Texts}

\* result.get('text', '')
GetText(result) == IF result.has THEN result.text ELSE << >>

\* the filter of line 69: result.get('text', '').strip() is truthy
KeepAll(result) == TRUE

Keep(result) == Strip(GetText(result)) # << >>

VARIABLES
    ctl,          \* controller position: main / constructor / start() / stop()
    modelOk,      \* whether Model(model_path) loads
    exitCode,     \* process exit status, -1 while the process lives
    running,      \* self.running
    audio_queue,  \* self.audio_queue: sequence of block ids
    result_queue, \* self.result_queue: sequence of [id, text]
    stream,       \* self.stream: 0 = attribute absent, else a stream id
    dev,          \* per stream: state of the device stream object
    stopCalls,    \* per stream: calls of stream.stop()
    closeCalls,   \* per stream: calls of stream.close()
    nstarts,      \* calls of start() so far
    nstops,       \* calls of stop() so far
    delivered,    \* blocks delivered by the device so far
    cap,          \* _audio_callback between line 59 and line 60: <<block, stream>> or << >>
    recPc,        \* per worker: position of _process_audio
    recBlk,       \* per worker: audio_data held (0 = none)
    dispPc,       \* per worker: position of _output_processor
    dispItem,     \* per worker: text held, as <<[id, text]>> or << >>
    enq,          \* history: block ids put on audio_queue, in order
    fed,          \* history: AcceptWaveform calls, [blk, raised]
    puts,         \* history: texts put on result_queue, in order
    calls,        \* history: callback invocations, [id, text, raised]
    ev            \* history: what the step just taken did, << >> for most steps

vars == <<ctl, modelOk, exitCode, running, audio_queue, result_queue, stream, dev,
          stopCalls, closeCalls, nstarts, nstops, delivered, cap, recPc, recBlk,
          dispPc, dispItem, enq, fed, puts, calls, ev>>

ctlVars   == <<ctl, modelOk, exitCode, nstarts, nstops>>
devVars   == <<stream, dev, stopCalls, closeCalls>>
capVars   == <<delivered, cap, enq>>
recVars   == <<recPc, recBlk, fed, puts>>
dispVars  == <<dispPc, dispItem, calls>>

\* ---- state before main() constructs the object ----
Init ==
    /\ ctl = "main"
    /\ modelOk \in BOOLEAN
    /\ exitCode = -1
    /\ running = FALSE
    /\ audio_queue = << >>
    /\ result_queue = << >>
    /\ stream = 0
    /\ dev = [s \in Streams |-> "none"]
    /\ stopCalls = [s \in Streams |-> 0]
    /\ closeCalls = [s \in Streams |-> 0]
    /\ nstarts = 0
    /\ nstops = 0
    /\ delivered = 0
    /\ cap = << >>
    /\ recPc = [w \in Workers |-> "unborn"]
    /\ recBlk = [w \in Workers |-> 0]
    /\ dispPc = [w \in Workers |-> "unborn"]
    /\ dispItem = [w \in Workers |-> << >>]
    /\ enq = << >>
    /\ fed = << >>
    /\ puts = << >>
    /\ calls = << >>
    /\ ev = << >>

\* ---- RealtimeSTT.__init__ as called from main() ----
\* lines 22-26 set the fields; lines 28-35: a model that fails to load ends in
\* sys.exit(1), i.e. SystemExit(1) propagates into main()'s try statement.
Construct ==
    /\ ctl = "main"
    /\ running' = FALSE
    /\ audio_queue' = << >>
    /\ result_queue' = << >>
    /\ ctl' = IF modelOk THEN "ready" ELSE "raised"
    /\ UNCHANGED <<modelOk, exitCode, nstarts, nstops, devVars, capVars, recVars, dispVars>>
    /\ ev' = << >>

\* main()'s finally clause while SystemExit(1) propagates: 'stt' is not in
\* locals(), so stop() is skipped, and sys.exit(0) replaces the exception.
MainFinallyCode(pending) == 0

MainFinally ==
    /\ ctl = "raised"
    /\ ctl' = "exited"
    /\ exitCode' = MainFinallyCode(1)
    /\ UNCHANGED <<modelOk, nstarts, nstops, running, audio_queue, result_queue,
                   devVars, capVars, recVars, dispVars>>
    /\ ev' = << >>

\* ---- RealtimeSTT.start ----
\* line 91: self.running = True
StartSetRunning ==
    /\ ctl = "ready"
    /\ nstarts < MaxStarts
    /\ nstarts' = nstarts + 1
    /\ running' = TRUE
    /\ ctl' = "start_device"
    /\ UNCHANGED <<modelOk, exitCode, nstops, audio_queue, result_queue,
                   devVars, capVars, recVars, dispVars>>
    /\ ev' = <<"start">>

\* lines 94-102: self.stream = sd.RawInputStream(...) opens the device and
\* self.stream.start() starts it; either call may raise (no device, bad rate),
\* which leaves start() at once: "open" fails before self.stream is assigned.
StartDevice ==
    /\ ctl = "start_device"
    /\ \E outcome \in {"open_fails", "start_fails", "ok"} :
        /\ stream' = IF outcome = "open_fails" THEN stream ELSE nstarts
        /\ dev' = IF outcome = "open_fails" THEN dev
                  ELSE [dev EXCEPT ![nstarts] = IF outcome = "ok" THEN "active" ELSE "open"]
        /\ ctl' = IF outcome = "ok" THEN "start_workers" ELSE "ready"
    /\ UNCHANGED <<modelOk, exitCode, nstarts, nstops, running, audio_queue, result_queue,
                   stopCalls, closeCalls, capVars, recVars, dispVars>>
    /\ ev' = << >>

\* lines 105-106: the two daemon threads are created and started
StartWorkers ==
    /\ ctl = "start_workers"
    /\ recPc' = [recPc EXCEPT ![nstarts] = "check"]
    /\ dispPc' = [dispPc EXCEPT ![nstarts] = "check"]
    /\ ctl' = "ready"
    /\ UNCHANGED <<modelOk, exitCode, nstarts, nstops, running, audio_queue, result_queue,
                   devVars, capVars, recBlk, fed, puts, dispItem, calls>>
    /\ ev' = << >>

\* ---- RealtimeSTT.stop ----
\* line 113: hasattr(self, 'stream')
HasStreamAlways(st, d) == TRUE

HasStream(st, d) == st # 0

\* lines 112-113: self.running = False, then the hasattr test
StopSetRunning ==
    /\ ctl = "ready"
    /\ nstops < MaxStops
    /\ nstops' = nstops + 1
    /\ running' = FALSE
    /\ ctl' = IF HasStream(stream, dev) THEN "stop_device" ELSE "ready"
    /\ UNCHANGED <<modelOk, exitCode, nstarts, audio_queue, result_queue,
                   devVars, capVars, recVars, dispVars>>
    /\ ev' = << >>

\* lines 114-115: self.stream.stop(); self.stream.close().  stop() returns once
\* a callback in progress has returned; neither call reports an error on a
\* stream that is already stopped or closed.
StopDevice ==
    /\ ctl = "stop_device"
    /\ IF cap = << >> THEN TRUE ELSE cap[2] # stream
    /\ stopCalls' = [stopCalls EXCEPT ![stream] = @ + 1]
    /\ closeCalls' = [closeCalls EXCEPT ![stream] = @ + 1]
    /\ dev' = [dev EXCEPT ![stream] = "closed"]
    /\ ctl' = "ready"
    /\ UNCHANGED <<modelOk, exitCode, nstarts, nstops, running, audio_queue, result_queue,
                   stream, capVars, recVars, dispVars>>
    /\ ev' = << >>

\* ---- RealtimeSTT._audio_callback (device thread) ----
\* lines 57-59: whether the handler goes on to enqueue the block.  A status
\* warning is logged (line 58) and decides nothing.
EnqueueAlways(r, status) == TRUE

DropOnWarning(r, status) == r /\ ~status

Enqueues(r, status) == r

\* lines 57-59: the device delivers a block, with or without a status warning;
\* the handler tests self.running and, when it is false, drops the block
CapCheck ==
    /\ cap = << >>
    /\ delivered < MaxBlocks
    /\ delivered' = delivered + 1
    /\ \E s \in Streams, status \in BOOLEAN :
        /\ dev[s] = "active"
        /\ cap' = IF Enqueues(running, status) THEN <<delivered + 1, s>> ELSE << >>
        /\ ev' = <<"deliver", status>>
    /\ UNCHANGED <<ctlVars, running, audio_queue, result_queue, devVars, enq,
                   recVars, dispVars>>

\* line 60: self.audio_queue.put(bytes(indata))
CapPut ==
    /\ cap # << >>
    /\ audio_queue' = Append(audio_queue, cap[1])
    /\ enq' = Append(enq, cap[1])
    /\ cap' = << >>
    /\ UNCHANGED <<ctlVars, running, result_queue, devVars, delivered,
                   recVars, dispVars>>
    /\ ev' = <<"put">>

\* ---- queue.Queue.get: the item returned and the queue left behind ----
GetKeepsHead(q) == q

Rest(q) == Tail(q)

\* ---- the loop test of lines 64 and 79: while self.running ----
LoopForever(r) == TRUE

LoopCond(r) == r

\* ---- where _process_audio continues after "except Exception" (lines 73-75) ----
RecDieOnError == "done"

RecAfterError == "check"

\* ---- where _output_processor continues after "except Exception" (lines 85-87) ----
DispDieOnError == "done"

DispAfterError == "check"

\* ---- where _process_audio continues after "except queue.Empty" (lines 71-72) ----
RecDieOnTimeout == "done"

RecAfterTimeout == "check"

\* ---- where _output_processor continues after "except queue.Empty" (lines 83-84) ----
DispAfterTimeout == "check"

\* ---- RealtimeSTT._process_audio, worker w ----
\* line 64: while self.running
RecCheck(w) ==
    /\ recPc[w] = "check"
    /\ recPc' = [recPc EXCEPT ![w] = IF LoopCond(running) THEN "poll" ELSE "done"]
    /\ UNCHANGED <<ctlVars, running, audio_queue, result_queue, devVars, capVars,
                   recBlk, fed, puts, dispVars>>
    /\ ev' = << >>

\* line 66: self.audio_queue.get(timeout=2) returns a block
RecGet(w) ==
    /\ recPc[w] = "poll"
    /\ audio_queue # << >>
    /\ recBlk' = [recBlk EXCEPT ![w] = Head(audio_queue)]
    /\ audio_queue' = Rest(audio_queue)
    /\ recPc' = [recPc EXCEPT ![w] = "feed"]
    /\ UNCHANGED <<ctlVars, running, result_queue, devVars, capVars,
                   fed, puts, dispVars>>
    /\ ev' = << >>

\* lines 66, 71-72: the poll times out on an empty queue (queue.Empty), continue
RecTimeout(w) ==
    /\ recPc[w] = "poll"
    /\ audio_queue = << >>
    /\ recPc' = [recPc EXCEPT ![w] = RecAfterTimeout]
    /\ UNCHANGED <<ctlVars, running, audio_queue, result_queue, devVars, capVars,
                   recBlk, fed, puts, dispVars>>
    /\ ev' = <<"timeout", "rec", w>>

\* lines 67-70 and 73-75: AcceptWaveform on the held block.  The recognizer
\* raises, or reports no utterance boundary, or reports one with a result dict.
RecFeed(w) ==
    /\ recPc[w] = "feed"
    /\ recBlk' = [recBlk EXCEPT ![w] = 0]
    /\ \/ /\ fed' = Append(fed, [blk |-> recBlk[w], raised |-> TRUE])
          /\ ev' = <<"feed", w, "raise">>
          /\ recPc' = [recPc EXCEPT ![w] = RecAfterError]
          /\ UNCHANGED <<result_queue, puts>>
       \/ /\ fed' = Append(fed, [blk |-> recBlk[w], raised |-> FALSE])
          /\ ev' = <<"feed", w, "more">>
          /\ recPc' = [recPc EXCEPT ![w] = "check"]
          /\ UNCHANGED <<result_queue, puts>>
       \/ \E result \in Results :
          /\ fed' = Append(fed, [blk |-> recBlk[w], raised |-> FALSE])
          /\ ev' = <<"feed", w, "final", result>>
          /\ recPc' = [recPc EXCEPT ![w] = "check"]
          /\ IF Keep(result)
             THEN /\ result_queue' = Append(result_queue, [id |-> Len(puts) + 1, text |-> result.text])
                  /\ puts' = Append(puts, result.text)
             ELSE UNCHANGED <<result_queue, puts>>
    /\ UNCHANGED <<ctlVars, running, audio_queue, devVars, capVars, dispVars>>

\* ---- RealtimeSTT._output_processor, worker w ----
\* line 79: while self.running
DispCheck(w) ==
    /\ dispPc[w] = "check"
    /\ dispPc' = [dispPc EXCEPT ![w] = IF LoopCond(running) THEN "poll" ELSE "done"]
    /\ UNCHANGED <<ctlVars, running, audio_queue, result_queue, devVars, capVars,
                   recVars, dispItem, calls>>
    /\ ev' = << >>

\* line 81: self.result_queue.get(timeout=2) returns a text
DispGet(w) ==
    /\ dispPc[w] = "poll"
    /\ result_queue # << >>
    /\ dispItem' = [dispItem EXCEPT ![w] = <<Head(result_queue)>>]
    /\ result_queue' = Rest(result_queue)
    /\ dispPc' = [dispPc EXCEPT ![w] = "call"]
    /\ UNCHANGED <<ctlVars, running, audio_queue, devVars, capVars, recVars, calls>>
    /\ ev' = << >>

\* lines 81, 83-84: the poll times out on an empty queue, continue
DispTimeout(w) ==
    /\ dispPc[w] = "poll"
    /\ result_queue = << >>
    /\ dispPc' = [dispPc EXCEPT ![w] = DispAfterTimeout]
    /\ UNCHANGED <<ctlVars, running, audio_queue, result_queue, devVars, capVars,
                   recVars, dispItem, calls>>
    /\ ev' = <<"timeout", "disp", w>>

\* lines 82 and 85-87: self.callback(text); the consumer returns or raises
DispCall(w) ==
    /\ dispPc[w] = "call"
    /\ dispItem' = [dispItem EXCEPT ![w] = << >>]
    /\ \E raised \in BOOLEAN :
        /\ calls' = Append(calls, [id |-> dispItem[w][1].id, text |-> dispItem[w][1].text,
                                   raised |-> raised])
        /\ ev' = <<"call", w, raised>>
        /\ dispPc' = [dispPc EXCEPT ![w] = IF raised THEN DispAfterError ELSE "check"]
    /\ UNCHANGED <<ctlVars, running, audio_queue, result_queue, devVars, capVars,
                   recVars>>

RecWorker(w)  == RecCheck(w) \/ RecGet(w) \/ RecTimeout(w) \/ RecFeed(w)
DispWorker(w) == DispCheck(w) \/ DispGet(w) \/ DispTimeout(w) \/ DispCall(w)

Next ==
    \/ Construct
    \/ MainFinally
    \/ StartSetRunning
    \/ StartDevice
    \/ StartWorkers
    \/ StopSetRunning
    \/ StopDevice
    \/ CapCheck
    \/ CapPut
    \/ \E w \in Workers : RecWorker(w)
    \/ \E w \in Workers : DispWorker(w)

Spec == Init /\ [][Next]_vars

\* The interpreter schedules every live thread, and a queue poll returns within
\* its timeout: each worker that can take a step eventually takes one.
FairSpec ==
    /\ Spec
    /\ \A w \in Workers : WF_vars(RecWorker(w)) /\ WF_vars(DispWorker(w))
    /\ WF_vars(CapPut)
    /\ WF_vars(StartDevice \/ StartWorkers)
    /\ WF_vars(StopDevice)

\* ---- vocabulary of the properties ----
IsBlank(t) == \A i \in 1..Len(t) : t[i] = " "

Live(pc) == pc \notin {"unborn", "done"}

AllWorkersDone == \A w \in Workers : ~Live(recPc[w]) /\ ~Live(dispPc[w])

\* nothing is in progress and nothing will move unless start() is called again
Quiescent == ctl = "ready" /\ ~running /\ cap = << >> /\ AllWorkersDone

RecRaised(e)    == Len(e) = 3 /\ e[1] = "feed" /\ e[3] = "raise"
CallRaised(e)   == Len(e) = 3 /\ e[1] = "call" /\ e[3] = TRUE
BlankBoundary(e) == Len(e) = 4 /\ e[1] = "feed" /\ e[3] = "final" /\ IsBlank(GetText(e[4]))

\* C1: the AcceptWaveform calls are, in order, a prefix of the blocks enqueued
\* on the audio queue: block N is never fed after block N+1.
C1_AudioOrder ==
    /\ Len(fed) <= Len(enq)
    /\ \A i \in 1..Len(fed) : fed[i].blk = enq[i]

\* C2: the texts passed to the callback are, in order, a prefix of the texts
\* put on the result queue: result M is never dispatched after result M+1.
C2_DispatchOrder ==
    /\ Len(calls) <= Len(puts)
    /\ \A i \in 1..Len(calls) : calls[i].id = i /\ calls[i].text = puts[i]

\* C3: the result queue holds only texts that are non-blank after trimming,
\* the callback is never invoked with a blank text, and an utterance boundary
\* whose text is missing, empty or whitespace-only changes neither the result
\* queue nor the callback invocations.
C3_Filtering ==
    /\ [](/\ \A i \in 1..Len(result_queue) : ~IsBlank(result_queue[i].text)
          /\ \A i \in 1..Len(calls) : ~IsBlank(calls[i].text))
    /\ [][BlankBoundary(ev') =>
            /\ result_queue' = result_queue
            /\ puts' = puts
            /\ calls' = calls]_vars

\* C3 witness: one text was dispatched and the next boundary carried a blank text
C3_Witness ==
    /\ BlankBoundary(ev)
    /\ ev[4].has
    /\ ev[4].text = <<" ">>
    /\ Len(calls) = 1
    /\ Len(fed) = 2

C5_CallbackFaultIsolation ==
    /\ [][CallRaised(ev') =>
            /\ dispPc'[ev'[2]] = "check"
            /\ running' = running
            /\ audio_queue' = audio_queue
            /\ result_queue' = result_queue
            /\ recPc' = recPc
            /\ recBlk' = recBlk
            /\ \A w \in Workers : w # ev'[2] => dispPc'[w] = dispPc[w]]_vars
    /\ \A n \in 1..MaxBlocks :
          (CallRaised(ev) /\ Len(calls) = n /\ result_queue # << >>)
             ~> (~running \/ Len(calls) > n)

\* C5 witness: result 2 was delivered after the callback raised on result 1
C5_Witness ==
    /\ Len(calls) >= 2
    /\ calls[1].raised
    /\ calls[1].id = 1
    /\ calls[2].id = 2
    /\ dispPc[2] = "unborn"

\* C6: a worker that tests the flag while it is false returns, and every poll
\* timeout leads straight to that test, so a worker polls at most once more
\* after stop(); and if the flag stays false from some point on, every worker
\* eventually terminates and stays terminated.
C6_Shutdown ==
    /\ [][\A w \in Workers :
            /\ (recPc[w] = "check" /\ ~running /\ recPc'[w] # "check") => recPc'[w] = "done"
            /\ (recPc[w] = "poll" /\ audio_queue = << >> /\ recPc'[w] # "poll") => recPc'[w] = "check"
            /\ (dispPc[w] = "check" /\ ~running /\ dispPc'[w] # "check") => dispPc'[w] = "done"
            /\ (dispPc[w] = "poll" /\ result_queue = << >> /\ dispPc'[w] # "poll") => dispPc'[w] = "check"]_vars
    /\ (<>[](~running)) => <>[]AllWorkersDone

\* C6 witness: stop() ran on a pipeline whose queues were always empty, and both
\* workers have returned
C6_Witness ==
    /\ ~running
    /\ nstops >= 1
    /\ recPc[1] = "done"
    /\ dispPc[1] = "done"
    /\ enq = << >>
    /\ puts = << >>

\* C7: stop() called again on a stopped pipeline does not call the device's
\* stop or close a second time: each stream is stopped and closed at most once.
C7_StopReleasesOnce ==
    \A s \in Streams : stopCalls[s] <= 1 /\ closeCalls[s] <= 1

\* C8: when the model fails to load, the device is never opened, the flag is
\* never true, no worker is launched, and the process exits with a non-zero
\* status.
C8_FailFast ==
    ~modelOk =>
        /\ \A s \in Streams : dev[s] = "none"
        /\ stream = 0
        /\ ~running
        /\ \A w \in Workers : recPc[w] = "unborn" /\ dispPc[w] = "unborn"
        /\ ctl = "exited" => exitCode # 0

\* C9: every text put on the result queue is passed to the callback exactly
\* once: when the pipeline has come to rest after stop(), each text that was
\* put on the result queue has exactly one callback invocation.
C9_ExactlyOnce ==
    Quiescent =>
        \A i \in 1..Len(puts) :
            Cardinality({j \in 1..Len(calls) : calls[j].id = i /\ calls[j].text = puts[i]}) = 1

\* C10: each block put on the audio queue is fed to the recognizer at most
\* once, and each text put on the result queue is passed to the callback at
\* most once, also when the callback raises.
C10_NoDuplication ==
    /\ \A i, j \in 1..Len(fed) : fed[i].blk = fed[j].blk => i = j
    /\ \A i, j \in 1..Len(calls) : calls[i].id = calls[j].id => i = j
    /\ \A i \in 1..Len(fed) : \E k \in 1..Len(enq) : enq[k] = fed[i].blk
    /\ \A i \in 1..Len(calls) : calls[i].id \in 1..Len(puts)

\* C10 witness: two blocks were fed and two texts dispatched, the first to a
\* callback that raised
C10_Witness ==
    /\ Len(fed) = 2
    /\ Len(calls) = 2
    /\ calls[1].raised

\* ---- vocabulary of the later properties ----
Queued(b)      == \E i \in 1..Len(audio_queue) : audio_queue[i] = b
WasFed(b)      == \E i \in 1..Len(fed) : fed[i].blk = b
ResultQueued(r) == \E i \in 1..Len(result_queue) : result_queue[i].id = r
WasCalled(r)   == \E i \in 1..Len(calls) : calls[i].id = r

Delivered(e)   == Len(e) = 2 /\ e[1] = "deliver"
WasPut(e)      == Len(e) = 1 /\ e[1] = "put"
StartBegan(e)  == Len(e) = 1 /\ e[1] = "start"
TimedOut(e)    == Len(e) = 3 /\ e[1] = "timeout"

\* C11: while the flag stays true and the workers are scheduled fairly, every
\* block on the audio queue is eventually fed to the recognizer and every text
\* on the result queue is eventually passed to the callback.
C11_NoLossWhileRunning ==
    /\ \A b \in 1..MaxBlocks : Queued(b) ~> (WasFed(b) \/ ~running)
    /\ \A r \in 1..MaxBlocks : ResultQueued(r) ~> (WasCalled(r) \/ ~running)

\* C12: stop() on a pipeline that was never started returns normally, calls
\* neither the device's stop nor its close, leaves both queues as they are and
\* leaves the flag false.
C12_StopNeverStarted ==
    /\ [][(nstarts = 0 /\ nstops' = nstops + 1) =>
            /\ ctl' = "ready"
            /\ ~running'
            /\ audio_queue' = audio_queue
            /\ result_queue' = result_queue
            /\ stopCalls' = stopCalls
            /\ closeCalls' = closeCalls
            /\ dev' = dev
            /\ stream' = stream]_vars
    /\ [](nstarts = 0 =>
            /\ ~running
            /\ ctl # "stop_device"
            /\ \A s \in Streams : stopCalls[s] = 0 /\ closeCalls[s] = 0)

\* C12 witness: stop() has returned twice and start() was never called
C12_Witness ==
    /\ nstarts = 0
    /\ nstops = 2
    /\ ctl = "ready"

\* C13: a block delivered while the flag is true is appended to the tail of
\* the audio queue exactly once, a block delivered while the flag is false is
\* discarded, and once stop() has cleared the flag the audio queue does not
\* grow until the next start().
C13_CaptureGating ==
    /\ [][Delivered(ev') =>
            IF running THEN cap' # << >> /\ cap'[1] = delivered'
            ELSE cap' = << >> /\ audio_queue' = audio_queue /\ enq' = enq]_vars
    /\ [][(~running /\ ~running') => Len(audio_queue') <= Len(audio_queue)]_vars
    /\ [](\A i, j \in 1..Len(enq) : enq[i] = enq[j] => i = j)

\* C13 as amended: a block delivered while the flag is true is appended to the
\* tail of the audio queue exactly once, a block delivered while the flag is
\* false is discarded, and the audio queue grows only by a block whose handler
\* read the flag as true, also when stop() has cleared the flag in between.
C13_CaptureGatingAmended ==
    /\ [][Delivered(ev') =>
            IF running THEN cap' # << >> /\ cap'[1] = delivered'
            ELSE cap' = << >> /\ audio_queue' = audio_queue /\ enq' = enq]_vars
    /\ [][(cap = << >> /\ cap' # << >>) => running]_vars
    /\ [][Len(audio_queue') > Len(audio_queue) =>
            /\ cap # << >>
            /\ cap' = << >>
            /\ audio_queue' = Append(audio_queue, cap[1])]_vars
    /\ [](\A i, j \in 1..Len(enq) : enq[i] = enq[j] => i = j)

\* C13 witness: a block whose handler had read the flag as true was appended
\* after stop() cleared the flag
C13_Witness ==
    /\ WasPut(ev)
    /\ ~running
    /\ nstops >= 1
    /\ audio_queue # << >>

\* C14: a block delivered with a status warning while the flag is true goes on
\* to be enqueued, and the warning changes neither the flag nor the device's
\* state nor the controller.
C14_WarningNotFatal ==
    [][(Delivered(ev') /\ ev'[2]) =>
            /\ running' = running
            /\ dev' = dev
            /\ stream' = stream
            /\ stopCalls' = stopCalls
            /\ closeCalls' = closeCalls
            /\ ctl' = ctl
            /\ recPc' = recPc
            /\ dispPc' = dispPc
            /\ running => (cap' # << >> /\ cap'[1] = delivered')]_vars

\* C14 witness: a block was delivered with a warning while the flag was true
\* and its handler is about to enqueue it
C14_Witness ==
    /\ Delivered(ev)
    /\ ev[2]
    /\ running
    /\ cap # << >>

\* C15: the flag is never true while the device is not open: start() opens the
\* device before it sets the flag, also when opening fails.
C15_StartOrder ==
    running => (stream # 0 /\ dev[stream] \in {"open", "active"})

\* C16: each start() constructs both queues anew: when start() has begun and
\* no device stream is delivering, neither queue holds a block or a text left
\* over from before.
C16_FreshQueues ==
    (StartBegan(ev) /\ \A s \in Streams : dev[s] # "active")
        => (audio_queue = << >> /\ result_queue = << >>)

\* C17: at most one recognition worker and at most one dispatch worker is
\* live, and two AcceptWaveform calls are never in progress together.
C17_SingleOwner ==
    /\ Cardinality({w \in Workers : Live(recPc[w])}) <= 1
    /\ Cardinality({w \in Workers : Live(dispPc[w])}) <= 1
    /\ Cardinality({w \in Workers : recPc[w] = "feed"}) <= 1

\* C18: a recognition worker returns only when the flag is false and the
\* audio queue is empty (its last poll found nothing), and a dispatch worker
\* only when the flag is false and the result queue is empty.
C18_ExitCondition ==
    [][\A w \in Workers :
        /\ (recPc[w] # "done" /\ recPc'[w] = "done") => (~running /\ audio_queue = << >>)
        /\ (dispPc[w] # "done" /\ dispPc'[w] = "done") => (~running /\ result_queue = << >>)]_vars

\* C19: a poll that times out leaves its worker alive at the loop test and
\* changes nothing else, and a worker returns only on reading the flag as
\* false, whatever timeouts and exceptions came before.
C19_TimeoutsNotErrors ==
    /\ [][TimedOut(ev') =>
            /\ IF ev'[2] = "rec"
               THEN /\ recPc[ev'[3]] = "poll"
                    /\ recPc' = [recPc EXCEPT ![ev'[3]] = "check"]
                    /\ dispPc' = dispPc
               ELSE /\ dispPc[ev'[3]] = "poll"
                    /\ dispPc' = [dispPc EXCEPT ![ev'[3]] = "check"]
                    /\ recPc' = recPc
            /\ UNCHANGED <<running, audio_queue, result_queue, stream, dev, stopCalls,
                           closeCalls, ctl, cap, recBlk, dispItem, fed, puts, calls>>]_vars
    /\ [][\A w \in Workers :
            /\ (recPc[w] # "done" /\ recPc'[w] = "done") => (recPc[w] = "check" /\ ~running)
            /\ (dispPc[w] # "done" /\ dispPc'[w] = "done") => (dispPc[w] = "check" /\ ~running)]_vars

\* C19 witness: after a recognizer exception the recognition worker's poll
\* timed out while the flag was true, and the worker is back at its loop test
C19_Witness ==
    /\ TimedOut(ev)
    /\ ev[2] = "rec"
    /\ running
    /\ recPc[ev[3]] = "check"
    /\ Len(fed) >= 1
    /\ fed[Len(fed)].raised

\* C20: the flag changes only in start() and stop(); a device stream is opened
\* only in start() and stopped or closed only in stop(); only a recognition
\* worker invokes the recognizer; the capture handler changes only the audio
\* queue; a dispatch worker changes only the result queue, by dequeuing its
\* head; and a recognition worker never invokes the callback.
C20_Ownership ==
    [][/\ running' # running =>
            /\ ctl = "ready"
            /\ (nstarts' = nstarts + 1 /\ running') \/ (nstops' = nstops + 1 /\ ~running')
       /\ dev' # dev =>
            \/ ctl = "start_device" /\ dev'[nstarts] \in {"open", "active"}
                                    /\ \A s \in Streams : s # nstarts => dev'[s] = dev[s]
            \/ ctl = "stop_device" /\ dev'[stream] = "closed"
                                   /\ \A s \in Streams : s # stream => dev'[s] = dev[s]
       /\ (stopCalls' # stopCalls \/ closeCalls' # closeCalls) => ctl = "stop_device"
       /\ fed' # fed =>
            /\ \E w \in Workers : recPc[w] = "feed" /\ recPc'[w] # "feed"
            /\ calls' = calls
            /\ dispPc' = dispPc
       /\ (delivered' # delivered \/ cap' # cap) =>
            /\ UNCHANGED <<running, result_queue, stream, dev, stopCalls, closeCalls,
                           ctl, recPc, recBlk, fed, puts, dispPc, dispItem, calls>>
            /\ audio_queue' = audio_queue \/ audio_queue' = Append(audio_queue, cap[1])
       /\ (dispPc' # dispPc /\ ctl # "start_workers") =>
            /\ UNCHANGED <<running, audio_queue, stream, dev, stopCalls, closeCalls,
                           ctl, cap, recPc, recBlk, fed, puts>>
            /\ \A w \in Workers :
                 IF dispPc[w] = "poll" /\ dispPc'[w] = "call"
                 THEN result_queue # << >> /\ result_queue' = Tail(result_queue)
                 ELSE dispPc'[w] # dispPc[w] => result_queue' = result_queue
       /\ calls' # calls =>
            /\ \E w \in Workers : dispPc[w] = "call" /\ dispPc'[w] # "call"
            /\ recPc' = recPc
            /\ fed' = fed]_vars

\* C20 witness: every party has acted: start() and stop() ran, the device was
\* closed, a block was fed and its text passed to the callback
C20_Witness ==
    /\ nstarts >= 1
    /\ nstops >= 1
    /\ closeCalls[1] >= 1
    /\ Len(fed) >= 1
    /\ Len(calls) >= 1

====
